---- MODULE Spec2Model ----
(***************************************************************************)
(* Job orchestration pipeline of the vegetation stress-map backend         *)
(* (src/main.py): the local endpoint process_local_images and the remote   *)
(* endpoint generate_map, as interleaved per-request state machines over   *)
(* a shared filesystem and a shared object store.                          *)
(*                                                                         *)
(* Strings and byte strings are sequences of tokens; a file path is the    *)
(* pair <<directory, file name>>.                                          *)
(***************************************************************************)
EXTENDS Integers, Sequences, FiniteSets, TLC

\* ---------------------------------------------------------------- bounds
MaxJobs == 2

Jobs == 1..MaxJobs
\* uuid.uuid4() yields a value no other call yields: the call made by
\* handler j yields j
Uuid4(j) == j
UUIDs == {Uuid4(j) : j \in Jobs}

\* byte strings an object or a file can hold (the empty one included)
Payloads == {<<>>, <<"b1">>}
\* object paths the bucket holds before any job runs
ObjPaths == {<<"P1">>, <<"P2">>}
\* request bodies: the RGB image at P1 and the NIR image at P2
Requests == {[rgb_image_path |-> <<"P1">>, nir_image_path |-> <<"P2">>]}
\* what the bucket holds before any job runs: two different images, either
\* of which may be the empty object
StoredInputs == {s \in [ObjPaths -> Payloads] : s[<<"P1">>] # s[<<"P2">>]}
\* captured streams of the external computation
Streams == {<<>>, <<"E">>}
OutStreams == {<<>>, <<"O">>}
\* API keys a caller can send; SERVER_API_KEY is the configured one
SERVER_API_KEY == "secret"
ApiKeys == {"secret", "wrong"}

VARIABLES
  pc,           \* position of each request handler
  mode,         \* "none" | "Local" | "Remote" | "Rejected" (API key refused)
  request,      \* ImageProcessRequest of a remote job
  job_id,       \* uuid of the job, 0 before it is generated
  dirs,         \* directories that exist
  files,        \* files that exist: path -> bytes
  storage,      \* bucket "vegetation-maps": object path -> bytes
  proc,         \* CompletedProcess of subprocess.run
  exc,          \* exception in flight inside the try block
  response,     \* what the caller receives once pc = "done"
  invocations,  \* number of subprocess.run calls of the job
  cleanups,     \* number of executions of the finally block
  attempts,     \* storage calls attempted by the job
  okStages,     \* stages of the job that completed without raising, in order
  failedAt,     \* stage whose failure ended the forward path
  api_key_header, \* X-API-Key header the request carried ("" before it arrives)
  copied        \* the computation left a copy of its RGB input at its output path

vars == <<pc, mode, request, job_id, dirs, files, storage, proc, exc,
          response, invocations, cleanups, attempts, okStages, failedAt,
          api_key_header, copied>>

\* ------------------------------------------------------------ constants
BUCKET_NAME == "vegetation-maps"
NoRequest == [rgb_image_path |-> <<>>, nir_image_path |-> <<>>]
NoProc == [returncode |-> 0, stderr |-> <<>>, stdout |-> <<>>]
NoExc == [type |-> "none", status_code |-> 0, detail |-> <<>>]
NoResponse == [kind |-> "none", status_code |-> 0, detail |-> <<>>, ref |-> <<>>]

\* ---------------------------------------------------------------- paths
Join(dir, name) == <<dir, name>>
DirName(path) == path[1]

LocalDataDir == <<"local_test_data">>
OutputDir == <<"local_outputs">>
LocalRgbPath == Join(LocalDataDir, <<"test_rgb.jpg">>)
LocalNirPath == Join(LocalDataDir, <<"test_nir.jpg">>)
\* mutant: the computation is handed its RGB input as its output path
LocalOutputPathOverInput(id) == LocalRgbPath

LocalOutputPath(id) == Join(OutputDir, <<"local_map_", id, ".png">>)

\* mutant: a directory name that does not contain the job identifier
TempDirShared(id) == <<"temp_", 0>>

TempDir(id) == <<"temp_", id>>
RgbPath(id) == Join(TempDir(id), <<"input_rgb.png">>)
NirPath(id) == Join(TempDir(id), <<"input_nir.png">>)
OutputFilename(id) == <<"stress_map_", id, ".png">>
RemoteOutputPath(id) == Join(TempDir(id), OutputFilename(id))
\* mutant: a destination that does not carry the job identifier
OutputStoragePathFixed(id) == <<"outputs/">> \o <<"stress_map_", 0, ".png">>

OutputStoragePath(id) == <<"outputs/">> \o OutputFilename(id)
PublicUrl(objpath) == <<"https://", BUCKET_NAME, "/">> \o objpath
\* the object path a public URL of the bucket names
Dereference(url) == SubSeq(url, 4, Len(url))

\* ----------------------------------------------------------- filesystem
Exists(path) == path \in DOMAIN files
WriteFile(fs, path, bytes) ==
  [q \in DOMAIN fs \cup {path} |-> IF q = path THEN bytes ELSE fs[q]]
RmTreeFiles(fs, dir) ==
  [q \in {p \in DOMAIN fs : DirName(p) # dir} |-> fs[q]]

\* -------------------------------------------------------------- strings
\* str(e): Starlette's HTTPException.__str__ formats "<status>: <detail>";
\* any other exception gives its message
StatusStr(status) ==
  CASE status = 500 -> "500" [] status = 404 -> "404" [] status = 403 -> "403"
    [] OTHER -> "200"
StrOf(e) ==
  IF e.type = "HTTPException"
  THEN <<StatusStr(e.status_code), ": ">> \o e.detail
  ELSE e.detail

\* mutant: the streams in the other order (process.stdout or process.stderr)
StdoutOrStderr(p) == IF p.stdout # <<>> THEN p.stdout ELSE p.stderr

\* process.stderr or process.stdout
StderrOrStdout(p) == IF p.stderr # <<>> THEN p.stderr ELSE p.stdout
ErrorMessage(p) == <<"MATLAB execution failed: ">> \o StderrOrStdout(p)
\* mutant: only a negative status (death by signal) counts as failure
ComputeFailedNegative(p) == p.returncode < 0

ComputeFailed(p) == p.returncode # 0

HTTPException(status, detail) ==
  [type |-> "HTTPException", status_code |-> status, detail |-> detail]
OtherException(msg) ==
  [type |-> "Exception", status_code |-> 0, detail |-> msg]
ErrorResponse(status, detail) ==
  [kind |-> "HTTPException", status_code |-> status, detail |-> detail, ref |-> <<>>]
UncaughtResponse ==
  [kind |-> "uncaught", status_code |-> 500,
   detail |-> <<"Internal Server Error">>, ref |-> <<>>]
OkResponse(msg, ref) ==
  [kind |-> "ok", status_code |-> 200, detail |-> msg, ref |-> ref]

\* ----------------------------------------------------------------- Init
\* The fixture directory may or may not hold each test file.
Init ==
  /\ pc = [j \in Jobs |-> "idle"]
  /\ mode = [j \in Jobs |-> "none"]
  /\ request = [j \in Jobs |-> NoRequest]
  /\ job_id = [j \in Jobs |-> 0]
  /\ dirs = {LocalDataDir}
  /\ \E present \in SUBSET {LocalRgbPath, LocalNirPath} :
       files = [p \in present |-> <<"fixture">>]
  /\ storage \in StoredInputs
  /\ proc = [j \in Jobs |-> NoProc]
  /\ exc = [j \in Jobs |-> NoExc]
  /\ response = [j \in Jobs |-> NoResponse]
  /\ invocations = [j \in Jobs |-> 0]
  /\ cleanups = [j \in Jobs |-> 0]
  /\ attempts = [j \in Jobs |-> {}]
  /\ okStages = [j \in Jobs |-> <<>>]
  /\ failedAt = [j \in Jobs |-> "none"]
  /\ api_key_header = [j \in Jobs |-> ""]
  /\ copied = [j \in Jobs |-> FALSE]

\* mutant: the except clause answers with a success body
ExceptReturnsOk(e) == OkResponse(<<"Stress map generated successfully!">>, <<>>)

\* mutant: an HTTPException raised in the try block is re-raised as it is
ExceptPassesThrough(e) ==
  IF e.type = "HTTPException" THEN ErrorResponse(e.status_code, e.detail)
  ELSE ErrorResponse(500, StrOf(e))

\* except Exception as e: raise HTTPException(status_code=500, detail=str(e))
Except(e) == ErrorResponse(500, StrOf(e))

\* mutant: a failed computation is run a second time
RaiseRetriesCompute(j, stage, e) ==
  IF stage = "compute" /\ invocations[j] < 2
  THEN /\ pc' = [pc EXCEPT ![j] = "compute"]
       /\ UNCHANGED <<exc, failedAt, response>>
  ELSE /\ exc' = [exc EXCEPT ![j] = e]
       /\ failedAt' = [failedAt EXCEPT ![j] = stage]
       /\ response' = [response EXCEPT ![j] = ErrorResponse(500, StrOf(e))]
       /\ pc' = [pc EXCEPT ![j] = "finally"]

\* mutant: cleanup written at the end of the except-free path only, so an
\* exception leaves the handler without running it
RaiseSkipsFinally(j, stage, e) ==
  /\ exc' = [exc EXCEPT ![j] = e]
  /\ failedAt' = [failedAt EXCEPT ![j] = stage]
  /\ response' = [response EXCEPT ![j] = ErrorResponse(500, StrOf(e))]
  /\ pc' = [pc EXCEPT ![j] = "done"]

\* the try block of generate_map raised e at the given stage: the except
\* clause replaces it and control goes to the finally block
Raise(j, stage, e) ==
  /\ exc' = [exc EXCEPT ![j] = e]
  /\ failedAt' = [failedAt EXCEPT ![j] = stage]
  /\ response' = [response EXCEPT ![j] = Except(e)]
  /\ pc' = [pc EXCEPT ![j] = "finally"]

\* ======================================================================
\* Remote endpoint: generate_map
\* ======================================================================
\* mutant: any key that was sent is accepted
GetApiKeyAny(api_key) == api_key # ""

GetApiKey(api_key) == api_key = SERVER_API_KEY

\* a request to /generate-stress-map/ arrives and passes through get_api_key
GenerateMapRequest(j) ==
  /\ pc[j] = "idle"
  /\ \E key \in ApiKeys :
       /\ api_key_header' = [api_key_header EXCEPT ![j] = key]
       /\ IF GetApiKey(key)
          THEN /\ \E r \in Requests : request' = [request EXCEPT ![j] = r]
               /\ mode' = [mode EXCEPT ![j] = "Remote"]
               /\ pc' = [pc EXCEPT ![j] = "start"]
               /\ UNCHANGED response
          ELSE /\ response' = [response EXCEPT ![j] =
                    ErrorResponse(403, <<"Could not validate API credentials.">>)]
               /\ mode' = [mode EXCEPT ![j] = "Rejected"]
               /\ pc' = [pc EXCEPT ![j] = "done"]
               /\ UNCHANGED request
  /\ UNCHANGED <<copied, job_id, dirs, files, storage, proc, exc, invocations,
                 cleanups, attempts, okStages, failedAt>>

\* job_id = uuid4(); os.makedirs(temp_dir, exist_ok=True), before the try
CreateWorkspace(j) ==
  /\ pc[j] = "start"
  /\ LET id == Uuid4(j) IN
       /\ job_id' = [job_id EXCEPT ![j] = id]
       /\ \/ /\ dirs' = dirs \cup {TempDir(id)}
             /\ pc' = [pc EXCEPT ![j] = "dl_rgb"]
             /\ UNCHANGED <<response, failedAt>>
          \/ \* makedirs raises: nothing catches it
             /\ response' = [response EXCEPT ![j] = UncaughtResponse]
             /\ failedAt' = [failedAt EXCEPT ![j] = "mkdir"]
             /\ pc' = [pc EXCEPT ![j] = "done"]
             /\ UNCHANGED dirs
  /\ UNCHANGED <<api_key_header, copied>>
  /\ UNCHANGED <<mode, request, files, storage, proc, exc, invocations,
                 cleanups, attempts, okStages>>

\* with open(local, 'wb+') as f: res = download(objpath); f.write(res)
Download(j, stage, objpath, local, nextpc) ==
  /\ pc[j] = stage
  /\ IF DirName(local) \notin dirs
     THEN \* open() raises FileNotFoundError
          /\ Raise(j, stage, OtherException(<<"FileNotFoundError">>))
          /\ UNCHANGED <<files, attempts, okStages>>
     ELSE /\ attempts' = [attempts EXCEPT ![j] = @ \cup {stage}]
          /\ \/ \* download raises: object missing or transport error
                /\ Raise(j, stage, OtherException(<<"StorageException">>))
                /\ files' = WriteFile(files, local, <<>>)
                /\ UNCHANGED okStages
             \/ /\ objpath \in DOMAIN storage
                /\ files' = WriteFile(files, local, storage[objpath])
                /\ okStages' = [okStages EXCEPT ![j] = Append(@, stage)]
                /\ pc' = [pc EXCEPT ![j] = nextpc]
                /\ UNCHANGED <<exc, failedAt, response>>
  /\ UNCHANGED <<api_key_header, copied>>
  /\ UNCHANGED <<mode, request, job_id, dirs, storage, proc,
                 invocations, cleanups>>

\* mutant: the RGB file is fetched from the NIR object path
DownloadRgbFromNir(j) ==
  Download(j, "dl_rgb", request[j].nir_image_path, RgbPath(job_id[j]), "dl_nir")

DownloadRgb(j) ==
  Download(j, "dl_rgb", request[j].rgb_image_path, RgbPath(job_id[j]), "dl_nir")

\* mutant: a failed NIR download is swallowed and the job goes on
DownloadNirContinues(j) ==
  /\ pc[j] = "dl_nir"
  /\ attempts' = [attempts EXCEPT ![j] = @ \cup {"dl_nir"}]
  /\ \/ /\ exc' = [exc EXCEPT ![j] = OtherException(<<"StorageException">>)]
        /\ failedAt' = [failedAt EXCEPT ![j] = "dl_nir"]
        /\ UNCHANGED <<files, okStages>>
     \/ /\ files' = WriteFile(files, NirPath(job_id[j]),
                              storage[request[j].nir_image_path])
        /\ okStages' = [okStages EXCEPT ![j] = Append(@, "dl_nir")]
        /\ UNCHANGED <<exc, failedAt>>
  /\ pc' = [pc EXCEPT ![j] = "compute"]
  /\ UNCHANGED <<api_key_header, copied>>
  /\ UNCHANGED <<mode, request, job_id, dirs, storage, proc, response,
                 invocations, cleanups>>

DownloadNir(j) ==
  Download(j, "dl_nir", request[j].nir_image_path, NirPath(job_id[j]), "compute")

\* subprocess.run(matlab_command, ...) is entered
InvokeMatlab(j) ==
  /\ pc[j] = "compute"
  /\ invocations' = [invocations EXCEPT ![j] = @ + 1]
  /\ pc' = [pc EXCEPT ![j] = "running"]
  /\ UNCHANGED <<api_key_header, copied>>
  /\ UNCHANGED <<mode, request, job_id, dirs, files, storage, proc, exc,
                 response, cleanups, attempts, okStages, failedAt>>

\* what the external computation may leave at its output path: nothing, a
\* copy of its RGB input, or some other image (a failed run leaves nothing)
RunnerWrites(fs, p, rgb, out) ==
  {fs} \cup
  (IF p.returncode = 0 /\ DirName(out) \in dirs
   THEN {WriteFile(fs, out, <<"map">>)} \cup
        (IF rgb \in DOMAIN fs THEN {WriteFile(fs, out, fs[rgb])} ELSE {})
   ELSE {})

\* the file at out after the run holds the bytes the file at rgb held before
IsCopy(before, after, rgb, out) ==
  /\ rgb \in DOMAIN before
  /\ out \in DOMAIN after
  /\ after[out] = before[rgb]

\* the streams of a run that exits 0 are never read: only the empty ones
\* are enumerated for it
CompletedProcesses ==
  {p \in [returncode : {0, 1}, stderr : Streams, stdout : OutStreams] :
     p.returncode = 0 => (p.stderr = <<>> /\ p.stdout = <<>>)}

\* subprocess.run returns; if process.returncode != 0: raise HTTPException
MatlabReturns(j) ==
  /\ pc[j] = "running"
  /\ \E p \in CompletedProcesses :
       /\ proc' = [proc EXCEPT ![j] = p]
       /\ files' \in RunnerWrites(files, p, RgbPath(job_id[j]), RemoteOutputPath(job_id[j]))
       /\ copied' = [copied EXCEPT ![j] =
                       IsCopy(files, files', RgbPath(job_id[j]),
                              RemoteOutputPath(job_id[j]))]
       /\ okStages' = [okStages EXCEPT ![j] =
                         IF p.returncode = 0 THEN Append(@, "compute") ELSE @]
       /\ IF ComputeFailed(p)
          THEN Raise(j, "compute", HTTPException(500, ErrorMessage(p)))
          ELSE /\ pc' = [pc EXCEPT ![j] = "upload"]
               /\ UNCHANGED <<exc, failedAt, response>>
  /\ UNCHANGED <<api_key_header, mode, request, job_id, dirs, storage,
                 invocations, cleanups, attempts>>

\* with open(local_output_path, 'rb') as f: upload(file=f, path=...)
Upload(j) ==
  /\ pc[j] = "upload"
  /\ LET out == RemoteOutputPath(job_id[j])
         dest == OutputStoragePath(job_id[j])
     IN IF ~Exists(out)
        THEN \* open() raises FileNotFoundError
             /\ Raise(j, "upload", OtherException(<<"FileNotFoundError">>))
             /\ UNCHANGED <<storage, attempts, okStages>>
        ELSE /\ attempts' = [attempts EXCEPT ![j] = @ \cup {"upload"}]
             /\ \/ /\ Raise(j, "upload", OtherException(<<"StorageException">>))
                   /\ UNCHANGED <<storage, okStages>>
                \/ /\ dest \notin DOMAIN storage
                   /\ storage' = WriteFile(storage, dest, files[out])
                   /\ okStages' = [okStages EXCEPT ![j] = Append(@, "upload")]
                   /\ pc' = [pc EXCEPT ![j] = "url"]
                   /\ UNCHANGED <<exc, failedAt, response>>
  /\ UNCHANGED <<api_key_header, copied>>
  /\ UNCHANGED <<mode, request, job_id, dirs, files, proc,
                 invocations, cleanups>>

\* public_url = get_public_url(output_storage_path); return {...}
GetPublicUrl(j) ==
  /\ pc[j] = "url"
  /\ attempts' = [attempts EXCEPT ![j] = @ \cup {"url"}]
  /\ \/ /\ Raise(j, "url", OtherException(<<"StorageException">>))
        /\ UNCHANGED okStages
     \/ /\ response' = [response EXCEPT ![j] =
             OkResponse(<<"Stress map generated successfully!">>,
                        PublicUrl(OutputStoragePath(job_id[j])))]
        /\ okStages' = [okStages EXCEPT ![j] = Append(@, "url")]
        /\ pc' = [pc EXCEPT ![j] = "finally"]
        /\ UNCHANGED <<exc, failedAt>>
  /\ UNCHANGED <<api_key_header, copied>>
  /\ UNCHANGED <<mode, request, job_id, dirs, files, storage, proc,
                 invocations, cleanups>>

\* mutant: the finally block without the rmtree call
FinallyNoRmtree(j) ==
  /\ pc[j] = "finally"
  /\ cleanups' = [cleanups EXCEPT ![j] = @ + 1]
  /\ pc' = [pc EXCEPT ![j] = "done"]
  /\ UNCHANGED <<api_key_header, copied>>
  /\ UNCHANGED <<mode, request, job_id, dirs, files, storage, proc, exc,
                 response, invocations, attempts, okStages, failedAt>>

\* mutant: rmtree without the os.path.exists guard raises out of the
\* finally block when the directory is absent
FinallyUnguarded(j) ==
  /\ pc[j] = "finally"
  /\ LET temp_dir == TempDir(job_id[j])
     IN IF temp_dir \in dirs
        THEN /\ dirs' = dirs \ {temp_dir}
             /\ files' = RmTreeFiles(files, temp_dir)
             /\ UNCHANGED response
        ELSE /\ response' = [response EXCEPT ![j] = UncaughtResponse]
             /\ UNCHANGED <<dirs, files>>
  /\ cleanups' = [cleanups EXCEPT ![j] = @ + 1]
  /\ pc' = [pc EXCEPT ![j] = "done"]
  /\ UNCHANGED <<api_key_header, copied>>
  /\ UNCHANGED <<mode, request, job_id, storage, proc, exc,
                 invocations, attempts, okStages, failedAt>>

\* finally: if os.path.exists(temp_dir): shutil.rmtree(temp_dir)
Finally(j) ==
  /\ pc[j] = "finally"
  /\ LET temp_dir == TempDir(job_id[j])
     IN IF temp_dir \in dirs
        THEN /\ dirs' = dirs \ {temp_dir}
             /\ files' = RmTreeFiles(files, temp_dir)
        ELSE UNCHANGED <<dirs, files>>
  /\ cleanups' = [cleanups EXCEPT ![j] = @ + 1]
  /\ pc' = [pc EXCEPT ![j] = "done"]
  /\ UNCHANGED <<api_key_header, copied>>
  /\ UNCHANGED <<mode, request, job_id, storage, proc, exc, response,
                 invocations, attempts, okStages, failedAt>>

\* something outside the server removes the job's directory while it runs
\* (the case the os.path.exists guard of the finally block is written for)
InTry(j) ==
  pc[j] \in {"dl_rgb", "dl_nir", "compute", "running", "upload", "url",
             "finally"}

WorkspaceRemovedExternally(j) ==
  /\ mode[j] = "Remote"
  /\ InTry(j)
  /\ TempDir(job_id[j]) \in dirs
  /\ dirs' = dirs \ {TempDir(job_id[j])}
  /\ files' = RmTreeFiles(files, TempDir(job_id[j]))
  /\ UNCHANGED <<api_key_header, copied>>
  /\ UNCHANGED <<pc, mode, request, job_id, storage, proc, exc, response,
                 invocations, cleanups, attempts, okStages, failedAt>>

\* ======================================================================
\* Local endpoint: process_local_images
\* ======================================================================
\* makedirs(output_dir, exist_ok=True); the os.path.exists check of both
\* fixtures; job_id = uuid4()
\* mutant: "and" in place of "or"
FixturesMissingBoth == ~Exists(LocalRgbPath) /\ ~Exists(LocalNirPath)

FixturesMissing == ~Exists(LocalRgbPath) \/ ~Exists(LocalNirPath)

ProcessLocalRequest(j) ==
  /\ pc[j] = "idle"
  /\ mode' = [mode EXCEPT ![j] = "Local"]
  /\ dirs' = dirs \cup {OutputDir}
  /\ IF FixturesMissing
     THEN /\ response' = [response EXCEPT ![j] =
               ErrorResponse(404, <<"Test files not found.">>)]
          /\ failedAt' = [failedAt EXCEPT ![j] = "fixture"]
          /\ pc' = [pc EXCEPT ![j] = "done"]
          /\ UNCHANGED job_id
     ELSE /\ job_id' = [job_id EXCEPT ![j] = Uuid4(j)]
          /\ pc' = [pc EXCEPT ![j] = "l_compute"]
          /\ UNCHANGED <<response, failedAt>>
  /\ UNCHANGED <<api_key_header, copied>>
  /\ UNCHANGED <<request, files, storage, proc, exc, invocations, cleanups,
                 attempts, okStages>>

LocalInvokeMatlab(j) ==
  /\ pc[j] = "l_compute"
  /\ invocations' = [invocations EXCEPT ![j] = @ + 1]
  /\ pc' = [pc EXCEPT ![j] = "l_running"]
  /\ UNCHANGED <<api_key_header, copied>>
  /\ UNCHANGED <<mode, request, job_id, dirs, files, storage, proc, exc,
                 response, cleanups, attempts, okStages, failedAt>>

LocalMatlabReturns(j) ==
  /\ pc[j] = "l_running"
  /\ \E p \in CompletedProcesses :
       /\ proc' = [proc EXCEPT ![j] = p]
       /\ files' \in RunnerWrites(files, p, LocalRgbPath, LocalOutputPath(job_id[j]))
       /\ okStages' = [okStages EXCEPT ![j] =
                         IF p.returncode = 0 THEN Append(@, "compute") ELSE @]
       /\ IF ComputeFailed(p)
          THEN LET e == HTTPException(500, ErrorMessage(p)) IN
               /\ exc' = [exc EXCEPT ![j] = e]
               /\ failedAt' = [failedAt EXCEPT ![j] = "compute"]
               /\ response' = [response EXCEPT ![j] = Except(e)]
               /\ pc' = [pc EXCEPT ![j] = "done"]
          ELSE /\ response' = [response EXCEPT ![j] =
                    OkResponse(<<"Local processing successful!">>,
                               LocalOutputPath(job_id[j]))]
               /\ pc' = [pc EXCEPT ![j] = "done"]
               /\ UNCHANGED <<exc, failedAt>>
  /\ UNCHANGED <<api_key_header, copied>>
  /\ UNCHANGED <<mode, request, job_id, dirs, storage, invocations,
                 cleanups, attempts>>

\* ======================================================================
Next ==
  \E j \in Jobs :
    \/ GenerateMapRequest(j)
    \/ CreateWorkspace(j)
    \/ DownloadRgb(j)
    \/ DownloadNir(j)
    \/ InvokeMatlab(j)
    \/ MatlabReturns(j)
    \/ Upload(j)
    \/ GetPublicUrl(j)
    \/ Finally(j)
    \/ WorkspaceRemovedExternally(j)
    \/ ProcessLocalRequest(j)
    \/ LocalInvokeMatlab(j)
    \/ LocalMatlabReturns(j)

Spec == Init /\ [][Next]_vars

\* The handler's own steps and the storage calls (which return or raise)
\* always complete; subprocess.run is given no timeout, so nothing makes
\* the external computation return.
HandlerStep(j) ==
  \/ CreateWorkspace(j)
  \/ DownloadRgb(j)
  \/ DownloadNir(j)
  \/ InvokeMatlab(j)
  \/ Upload(j)
  \/ GetPublicUrl(j)
  \/ Finally(j)
  \/ LocalInvokeMatlab(j)

LiveSpec == Init /\ [][Next]_vars /\ \A j \in Jobs : WF_vars(HandlerStep(j))

TypeOK ==
  /\ pc \in [Jobs -> {"idle", "start", "dl_rgb", "dl_nir", "compute", "running",
                      "upload", "url", "finally", "done",
                      "l_compute", "l_running"}]
  /\ mode \in [Jobs -> {"none", "Local", "Remote", "Rejected"}]
  /\ job_id \in [Jobs -> UUIDs \cup {0}]
  /\ \A j \in Jobs : invocations[j] \in 0..1 /\ cleanups[j] \in 0..1
  /\ api_key_header \in [Jobs -> ApiKeys \cup {""}]
  /\ copied \in [Jobs -> BOOLEAN]

\* ======================================================================
\* Properties
\* ======================================================================
Remote(j) == mode[j] = "Remote"
Local(j) == mode[j] = "Local"
Done(j) == pc[j] = "done"
\* os.makedirs(temp_dir) of job j returned: the job owns a workspace
HasWorkspace(j) == Remote(j) /\ job_id[j] # 0 /\ failedAt[j] # "mkdir"
Did(j, stage) == \E i \in DOMAIN okStages[j] : okStages[j][i] = stage
WorkspaceFiles(j) == {p \in DOMAIN files : DirName(p) = TempDir(job_id[j])}
WorkspaceGone(j) == TempDir(job_id[j]) \notin dirs /\ WorkspaceFiles(j) = {}

\* C1: once a job has finished (its response or error has reached the
\* caller), in either mode and whatever each stage did, the workspace
\* directory of that job does not exist.
C1_WorkspaceAbsentAfterFinish ==
  \A j \in Jobs : (Done(j) /\ job_id[j] # 0) => WorkspaceGone(j)

\* a remote job that failed at the upload, after the directory held both
\* inputs and the output, has finished and cleaned up
C1_Witness ==
  \E j \in Jobs :
    /\ Done(j) /\ HasWorkspace(j) /\ cleanups[j] = 1
    /\ failedAt[j] = "upload" /\ "upload" \in attempts[j]
    /\ WorkspaceGone(j)

C3_Original ==
  \A j \in Jobs :
    (Done(j) /\ proc[j].returncode # 0) =>
      /\ response[j].kind # "ok"
      /\ response[j].detail =
           (IF proc[j].stderr # <<>> THEN proc[j].stderr ELSE proc[j].stdout)

\* C3 (amended): after a non-zero exit the job fails with status 500 and the
\* detail the caller receives is "500: MATLAB execution failed: " followed by
\* the captured standard error when that is non-empty, and otherwise by the
\* captured standard output.
C3_DetailCarriesDiagnostic ==
  \A j \in Jobs :
    (Done(j) /\ proc[j].returncode # 0) =>
      /\ response[j].kind = "HTTPException"
      /\ response[j].status_code = 500
      /\ response[j].detail =
           <<"500", ": ", "MATLAB execution failed: ">> \o
           (IF proc[j].stderr # <<>> THEN proc[j].stderr ELSE proc[j].stdout)

\* a failed run that wrote to both streams
C3_Witness ==
  \E j \in Jobs :
    /\ Done(j) /\ Remote(j) /\ proc[j].returncode # 0
    /\ proc[j].stderr = <<"E">> /\ proc[j].stdout = <<"O">>

\* C4: in a remote job whose computation exited non-zero, no upload and no
\* public-URL resolution is attempted: the job is in the cleanup stage or
\* finished, with the failure recorded at the compute stage.
C4_NoPublishAfterComputeFailure ==
  \A j \in Jobs :
    (Remote(j) /\ proc[j].returncode # 0) =>
      /\ "upload" \notin attempts[j]
      /\ "url" \notin attempts[j]
      /\ pc[j] \in {"finally", "done"}
      /\ failedAt[j] = "compute"

C4_Witness ==
  \E j \in Jobs :
    /\ Remote(j) /\ Done(j) /\ proc[j].returncode # 0
    /\ attempts[j] = {"dl_rgb", "dl_nir"}
    /\ invocations[j] = 1

\* C5: in a remote job, if the download of either input failed, the
\* external computation is never invoked for that job and, once the job has
\* finished, its workspace is removed.
C5_DownloadFailureSkipsCompute ==
  \A j \in Jobs :
    (Remote(j) /\ failedAt[j] \in {"dl_rgb", "dl_nir"}) =>
      /\ invocations[j] = 0
      /\ pc[j] \in {"finally", "done"}
      /\ Done(j) => (WorkspaceGone(j) /\ response[j].kind # "ok")

\* the RGB download succeeded and the NIR download raised
C5_Witness ==
  \E j \in Jobs :
    /\ Remote(j) /\ Done(j) /\ failedAt[j] = "dl_nir"
    /\ Did(j, "dl_rgb") /\ "dl_nir" \in attempts[j]
    /\ invocations[j] = 0 /\ WorkspaceGone(j)

\* C6: in a local job, if either fixture file is absent, the caller gets a
\* not-found (404) response and the external computation is never invoked.
C6_MissingFixtureNotFound ==
  \A j \in Jobs :
    (Local(j) /\ (~Exists(LocalRgbPath) \/ ~Exists(LocalNirPath))) =>
      /\ Done(j)
      /\ response[j].kind = "HTTPException"
      /\ response[j].status_code = 404
      /\ invocations[j] = 0

\* only the NIR fixture is missing
C6_Witness ==
  \E j \in Jobs :
    /\ Local(j) /\ Done(j) /\ response[j].status_code = 404
    /\ Exists(LocalRgbPath) /\ ~Exists(LocalNirPath)

\* both inputs of job j are in place: downloaded (remote) or present in the
\* fixture directory (local)
BothAcquired(j) ==
  \/ Remote(j) /\ Did(j, "dl_rgb") /\ Did(j, "dl_nir")
  \/ Local(j) /\ Exists(LocalRgbPath) /\ Exists(LocalNirPath)

\* C7: a job invokes the external computation at most once, and exactly
\* once when both of its inputs were acquired (from the moment the handler
\* passes the invocation on); a returned invocation, whatever its status,
\* is never followed by another one.
C7_SingleInvocation ==
  \A j \in Jobs :
    /\ invocations[j] <= 1
    /\ (BothAcquired(j) /\ pc[j] \notin {"compute", "l_compute"})
         => invocations[j] = 1

\* an invocation has returned non-zero and the job has finished without
\* a second one
C7_Witness ==
  \E j \in Jobs, k \in Jobs :
    /\ Remote(j) /\ Done(j) /\ proc[j].returncode # 0 /\ invocations[j] = 1
    /\ Local(k) /\ Done(k) /\ proc[k].returncode # 0 /\ invocations[k] = 1

AllStages == <<"dl_rgb", "dl_nir", "compute", "upload", "url">>

\* C8: a remote job answers with a success response carrying an output URL
\* only if both downloads, the computation (exit status 0), the upload and
\* the URL resolution all succeeded, in this order; a job in which a stage
\* failed never answers with a success response.
C8_SuccessOnlyIfAllStagesSucceeded ==
  \A j \in Jobs :
    Remote(j) =>
      /\ response[j].kind = "ok" =>
           /\ okStages[j] = AllStages
           /\ proc[j].returncode = 0
           /\ response[j].ref = PublicUrl(OutputStoragePath(job_id[j]))
           /\ failedAt[j] = "none"
      /\ failedAt[j] # "none" => response[j].kind # "ok"

\* one job succeeded; another uploaded its artifact, failed at the URL
\* resolution and answered with a failure
C8_Witness ==
  \E j \in Jobs, k \in Jobs :
    /\ Remote(j) /\ Done(j) /\ response[j].kind = "ok"
    /\ Remote(k) /\ Done(k) /\ failedAt[k] = "url" /\ Did(k, "upload")
    /\ response[k].kind = "HTTPException"

\* C9 (as stated): whichever stage failed, in either mode, the caller sees
\* the same failure class: the converted HTTP 500 error with a detail string.
C9_Original ==
  \A j \in Jobs :
    (Done(j) /\ failedAt[j] # "none") =>
      /\ response[j].kind = "HTTPException"
      /\ response[j].status_code = 500

TryStages == {"dl_rgb", "dl_nir", "compute", "upload", "url"}

\* C9 (amended): every failure raised inside the try block (a download, the
\* computation, the upload, the URL resolution; in local mode the
\* computation) reaches the caller as an HTTP 500 error whose detail is the
\* text of the exception, the same class whichever of these stages failed;
\* a missing local fixture is answered with 404, and a failure to create the
\* workspace is raised before the try block and reaches the caller
\* unconverted.
C9_UniformFailureInsideTry ==
  \A j \in Jobs :
    (Done(j) /\ failedAt[j] # "none") =>
      /\ failedAt[j] \in TryStages =>
           /\ response[j].kind = "HTTPException"
           /\ response[j].status_code = 500
           /\ response[j].detail =
                (IF exc[j].type = "HTTPException"
                 THEN <<"500", ": ">> \o exc[j].detail
                 ELSE exc[j].detail)
      /\ failedAt[j] = "fixture" =>
           (response[j].kind = "HTTPException" /\ response[j].status_code = 404)
      /\ failedAt[j] = "mkdir" => response[j].kind = "uncaught"

\* a remote job failed at the upload and a local job at the computation:
\* both answered with the 500 class
C9_Witness ==
  \E j \in Jobs, k \in Jobs :
    /\ Remote(j) /\ Done(j) /\ failedAt[j] = "upload"
    /\ response[j].status_code = 500
    /\ Local(k) /\ Done(k) /\ failedAt[k] = "compute"
    /\ response[k].status_code = 500

\* job k is between the creation of its workspace and its cleanup
Running(k) == Remote(k) /\ InTry(k)

\* C10: the workspace paths of two jobs are distinct, and the cleanup step
\* of one job leaves the workspace of every other running job as it is:
\* the directory and each file in it, with its content.
C10_WorkspacesDisjoint ==
  /\ [](\A j \in Jobs, k \in Jobs :
          (j # k /\ job_id[j] # 0 /\ job_id[k] # 0) =>
             TempDir(job_id[j]) # TempDir(job_id[k]))
  /\ [][\A j \in Jobs, k \in Jobs :
          (j # k /\ pc[j] = "finally" /\ pc'[j] = "done" /\ Running(k)) =>
             /\ (TempDir(job_id[k]) \in dirs) = (TempDir(job_id[k]) \in dirs')
             /\ \A p \in WorkspaceFiles(k) :
                  p \in DOMAIN files' /\ files'[p] = files[p]]_vars

\* one job has cleaned up while another still holds its downloaded input
C10_Witness ==
  \E j \in Jobs, k \in Jobs :
    /\ j # k /\ HasWorkspace(j) /\ Done(j) /\ cleanups[j] = 1
    /\ Running(k) /\ TempDir(job_id[k]) \in dirs /\ Exists(RgbPath(job_id[k]))

\* the two fixture files of the local endpoint
Fixtures == {LocalRgbPath, LocalNirPath}

\* C11: the pipeline never deletes or modifies its local inputs: no step
\* removes a fixture file that is present or changes its content, so that
\* after any local job that got past the fixture check, succeeded or
\* failed, both fixture files are present with the content they had.
C11_LocalInputsUntouched ==
  /\ [][\A p \in Fixtures :
          Exists(p) => p \in DOMAIN files' /\ files'[p] = files[p]]_vars
  /\ [](\A j \in Jobs :
          Local(j) /\ Done(j) /\ failedAt[j] # "fixture" =>
            \A p \in Fixtures : Exists(p) /\ files[p] = <<"fixture">>)

\* one local job succeeded and left its output, another failed in the
\* computation, and both fixtures are in place
C11_Witness ==
  \E j \in Jobs, k \in Jobs :
    /\ Local(j) /\ Done(j) /\ response[j].kind = "ok"
    /\ Exists(LocalOutputPath(job_id[j]))
    /\ Local(k) /\ Done(k) /\ failedAt[k] = "compute"
    /\ \A p \in Fixtures : Exists(p) /\ files[p] = <<"fixture">>

\* C12: in local mode with both fixtures present, whenever a job returns
\* a success response, a file exists at the path the response reports in
\* output_saved_to. (Violated: the exit status alone decides success.)
C12_Original ==
  \A j \in Jobs :
    Local(j) /\ Done(j) /\ response[j].kind = "ok" =>
      /\ response[j].ref = LocalOutputPath(job_id[j])
      /\ Exists(response[j].ref)

\* every storage call the job attempted returned without raising
StorageCallsSucceeded(j) == \A s \in attempts[j] : Did(j, s)
\* no open() of the job found its workspace taken away by another party
WorkspaceLeftAlone(j) == exc[j].detail # <<"FileNotFoundError">>

\* C13: round trip through the remote endpoint. For every B_rgb stored at
\* the requested RGB path and B_nir at the NIR path: if the computation
\* copies its RGB input to its output path and exits 0, and no storage
\* call fails (nor is the workspace removed under the job), the finished
\* job has succeeded and the object the returned URL refers to is B_rgb.
C13_RoundTrip ==
  \A j \in Jobs :
    ( /\ Remote(j) /\ Done(j)
      /\ copied[j] /\ proc[j].returncode = 0
      /\ StorageCallsSucceeded(j) /\ WorkspaceLeftAlone(j) ) =>
      /\ response[j].kind = "ok"
      /\ Dereference(response[j].ref) \in DOMAIN storage
      /\ storage[Dereference(response[j].ref)] =
           storage[request[j].rgb_image_path]

\* a finished job whose computation copied a non-empty B_rgb and whose
\* returned URL leads to an object holding it
C13_Witness ==
  \E j \in Jobs :
    /\ Remote(j) /\ Done(j) /\ copied[j] /\ response[j].kind = "ok"
    /\ attempts[j] = {"dl_rgb", "dl_nir", "upload", "url"}
    /\ storage[request[j].rgb_image_path] = <<"b1">>
    /\ storage[OutputStoragePath(job_id[j])] = <<"b1">>

\* the request of job slot j arrived with a header other than the secret
BadKey(j) == api_key_header[j] \notin {"", SERVER_API_KEY}

\* C14: a request whose X-API-Key header differs from the configured secret
\* is rejected (403) before any job exists: it gets no job identifier and
\* no workspace, no download, invocation, upload or URL call is made for
\* it, no output URL is returned, and its arrival leaves the filesystem and
\* the object store as they were.
C14_BadKeyRejectedBeforeJob ==
  /\ [](\A j \in Jobs :
          BadKey(j) =>
            /\ Done(j) /\ ~Remote(j)
            /\ response[j].kind = "HTTPException"
            /\ response[j].status_code = 403
            /\ response[j].ref = <<>>
            /\ job_id[j] = 0
            /\ attempts[j] = {} /\ okStages[j] = <<>>
            /\ invocations[j] = 0 /\ cleanups[j] = 0)
  /\ [][\A j \in Jobs :
          ~BadKey(j) /\ BadKey(j)' => UNCHANGED <<dirs, files, storage>>]_vars

\* a request with a wrong key has been answered while a request with the
\* right key is being served in its own workspace
C14_Witness ==
  \E j \in Jobs, k \in Jobs :
    /\ api_key_header[j] = "wrong" /\ Done(j) /\ response[j].status_code = 403
    /\ api_key_header[k] = SERVER_API_KEY /\ TempDir(job_id[k]) \in dirs

\* a download of the job returned, without raising, a payload of no bytes
EmptyPayloadReturned(j) ==
  \/ Did(j, "dl_rgb") /\ storage[request[j].rgb_image_path] = <<>>
  \/ Did(j, "dl_nir") /\ storage[request[j].nir_image_path] = <<>>

\* C15: input acquisition fails, and the computation is not invoked, also
\* when a download returns no data for either input. (Violated: the empty
\* payload is written to the input file and the job goes on.)
C15_Original ==
  \A j \in Jobs :
    Remote(j) /\ EmptyPayloadReturned(j) =>
      /\ invocations[j] = 0
      /\ pc[j] \notin {"compute", "running", "upload", "url"}
      /\ Done(j) => failedAt[j] \in {"dl_rgb", "dl_nir"}

\* the finally block of job j runs in this step
CleanupStep(j) == pc[j] = "finally" /\ pc'[j] = "done"

\* C16: workspace destruction does not raise when the directory is already
\* absent: the cleanup step then changes neither directories nor files,
\* and the outcome pending before it (the success response, or the 500
\* made from the original failure) is the one the finished job delivers.
C16_CleanupOfAbsentWorkspaceIsNoOp ==
  /\ [][\A j \in Jobs :
          CleanupStep(j) /\ TempDir(job_id[j]) \notin dirs =>
            /\ UNCHANGED <<dirs, files, storage>>
            /\ response'[j] = response[j]
            /\ exc'[j] = exc[j]]_vars
  /\ [](\A j \in Jobs :
          Remote(j) /\ Done(j) /\ cleanups[j] = 1 =>
            IF failedAt[j] = "none"
            THEN response[j].kind = "ok"
            ELSE response[j] = Except(exc[j]))

\* a finished job whose NIR download found the directory gone, so that the
\* cleanup met an absent workspace, and which delivered that failure
C16_Witness ==
  \E j \in Jobs :
    /\ Remote(j) /\ Done(j) /\ cleanups[j] = 1
    /\ failedAt[j] = "dl_nir"
    /\ exc[j] = OtherException(<<"FileNotFoundError">>)
    /\ response[j] = ErrorResponse(500, <<"FileNotFoundError">>)

\* the upload call of job j returns in this step
UploadStep(j) == pc[j] = "upload" /\ pc'[j] = "url"

====
